---- MODULE Spec2Model ----
(***************************************************************************)
(* The data cleanup of the ingestion server (cleanup.py): the cleaning     *)
(* functions, the TLS prober, the batch worker and the orchestrator        *)
(* clean_image_data.                                                       *)
(*                                                                         *)
(* Python strings are sequences of one-character strings.  A number with a *)
(* fraction (a tag's accuracy) is kept in hundredths.  Python's None and   *)
(* the other values a cleaning function returns are records tagged by      *)
(* "kind".                                                                 *)
(***************************************************************************)
EXTENDS Integers, Sequences, FiniteSets, TLC

(***************************************************************************)
(* Bounds of the model.                                                    *)
(***************************************************************************)
\* Rows of the staging table in a cleanup run.
MaxRows == 6
\* Rows of the staging table when only the prober runs.
MaxProbeRows == 11
\* multiprocessing.cpu_count() lies in 1..MaxWorkers.
MaxWorkers == 2
\* Tags of a collection handed to cleanup_tags alone.
MaxTags == 3
\* The most tags of a row that is cleaned twice.
MaxRerunTags == 2
\* CLEANUP_BUFFER_SIZE = DB_BUFFER_SIZE, which the indexer sets from the
\* environment: the rows of one batch.
CLEANUP_BUFFER_SIZE == 4

(***************************************************************************)
(* Program constants.                                                      *)
(***************************************************************************)
\* 0.90, in hundredths.
TAG_MIN_CONFIDENCE == 90
\* LIMIT 10 of the sample query.
SAMPLE_LIMIT == 10

TAG_BLACKLIST == {
    <<"n","o"," ","p","e","r","s","o","n">>,
    <<"s","q","u","a","r","e","f","o","r","m","a","t">>,
    <<"u","p","l","o","a","d","e","d",":","b","y","=","f","l","i","c","k","r","m","o","b","i","l","e">>,
    <<"u","p","l","o","a","d","e","d",":","b","y","=","i","n","s","t","a","g","r","a","m">>,
    <<"f","l","i","c","k","r","i","o","s","a","p","p",":","f","i","l","t","e","r","=","f","l","a","m","i","n","g","o">>,
    <<"c","c","0">>,
    <<"b","y">>,
    <<"b","y","-","n","c">>,
    <<"b","y","-","n","d">>,
    <<"b","y","-","s","a">>,
    <<"b","y","-","n","c","-","n","d">>,
    <<"b","y","-","n","c","-","s","a">>,
    <<"p","d","m">> }

(***************************************************************************)
(* Strings.                                                                *)
(***************************************************************************)
LowerLetters == <<"a","b","c","d","e","f","g","h","i","j","k","l","m","n","o","p","q","r","s","t","u","v","w","x","y","z">>
UpperLetters == <<"A","B","C","D","E","F","G","H","I","J","K","L","M","N","O","P","Q","R","S","T","U","V","W","X","Y","Z">>
Digits == {"0","1","2","3","4","5","6","7","8","9"}

Range(s) == { s[i] : i \in DOMAIN s }

\* str.lower() of one character.
LowerChar(c) ==
    IF \E i \in DOMAIN UpperLetters : UpperLetters[i] = c
    THEN LowerLetters[CHOOSE i \in DOMAIN UpperLetters : UpperLetters[i] = c]
    ELSE c

\* str.lower()
Lower(s) == [ i \in DOMAIN s |-> LowerChar(s[i]) ]

\* sub in s
Contains(s, sub) ==
    \E i \in 1..(Len(s) - Len(sub) + 1) : SubSeq(s, i, i + Len(sub) - 1) = sub

\* s.find(c), counted from 1; 0 when c is not in s.
Find(s, c) ==
    IF c \in Range(s) THEN CHOOSE i \in DOMAIN s : s[i] = c /\ \A j \in 1..(i-1) : s[j] # c
    ELSE 0

HTTP == <<"h","t","t","p",":","/","/">>
HTTPS == <<"h","t","t","p","s",":","/","/">>
QUOTE == "'"

\* The characters urllib.parse allows in a scheme.
SchemeChars == Range(LowerLetters) \cup Range(UpperLetters) \cup Digits \cup {"+", "-", "."}

\* urlparse(url).scheme: the text before the first ':' when it starts with a
\* letter and is made only of scheme characters, lower-cased; else ''.
UrlparseScheme(url) ==
    LET i == Find(url, ":")
    IN  IF /\ i > 1
           /\ url[1] \in Range(LowerLetters) \cup Range(UpperLetters)
           /\ \A j \in 1..(i-1) : url[j] \in SchemeChars
        THEN Lower(SubSeq(url, 1, i - 1))
        ELSE <<>>

(***************************************************************************)
(* Values.                                                                 *)
(***************************************************************************)
None == [kind |-> "None"]
Str(s) == [kind |-> "str", val |-> s]
\* psycopg2.extras.Json(adapted): rendered by the adapter as a quoted literal.
Json(adapted) == [kind |-> "Json", adapted |-> adapted]
KeyError == [kind |-> "KeyError"]

\* The outcomes of requests.get(https, timeout=2).
Responses ==
    { [exc |-> FALSE, status |-> 200], [exc |-> FALSE, status |-> 404],
      [exc |-> TRUE, status |-> 0] }

(***************************************************************************)
(* TlsTest.test_tls_supported                                              *)
(***************************************************************************)
\* The result of the probe of url when the GET, if one is issued, ends as
\* resp: supported is the value returned, get tells whether a GET was issued.
RECURSIVE test_tls_supported(_, _)
test_tls_supported(url, resp) ==
    IF ~Contains(url, HTTPS) /\ ~Contains(url, HTTP)
    THEN test_tls_supported(HTTP \o url, resp)
    ELSE IF Contains(url, HTTP)
    THEN [supported |-> IF resp.exc THEN FALSE
                        ELSE 200 <= resp.status /\ resp.status < 400,
          get |-> TRUE]
    ELSE [supported |-> TRUE, get |-> FALSE]

(***************************************************************************)
(* CleanupFunctions                                                        *)
(***************************************************************************)
\* FormatUrl with the two schemes exchanged.
FormatUrl_swapped(tls_supported, url) ==
    IF tls_supported
    THEN <<QUOTE>> \o HTTP \o url \o <<QUOTE>>
    ELSE <<QUOTE>> \o HTTPS \o url \o <<QUOTE>>

\* "'https://{}'".format(url) and "'http://{}'".format(url)
FormatUrl(tls_supported, url) ==
    IF tls_supported
    THEN <<QUOTE>> \o HTTPS \o url \o <<QUOTE>>
    ELSE <<QUOTE>> \o HTTP \o url \o <<QUOTE>>

\* cleanup_url without the test of the scheme: it qualifies every URL.
cleanup_url_any(url, tls_support, provider, resp) ==
    IF provider \in DOMAIN tls_support
    THEN [clean |-> Str(FormatUrl(tls_support[provider], url)),
          tls |-> tls_support,
          probes |-> <<>>]
    ELSE LET t == test_tls_supported(url, resp)
         IN  [clean |-> Str(FormatUrl(t.supported, url)),
              tls |-> [p \in DOMAIN tls_support \cup {provider} |->
                          IF p = provider THEN t.supported ELSE tls_support[p]],
              probes |-> << [provider |-> provider, url |-> url, get |-> t.get] >>]

\* cleanup_url that probes every scheme-less URL and stores the result,
\* whether the mapping holds the provider or not.
cleanup_url_reprobing(url, tls_support, provider, resp) ==
    IF UrlparseScheme(url) = <<>>
    THEN LET t == test_tls_supported(url, resp)
         IN  [clean |-> Str(FormatUrl(t.supported, url)),
              tls |-> [p \in DOMAIN tls_support \cup {provider} |->
                          IF p = provider THEN t.supported ELSE tls_support[p]],
              probes |-> << [provider |-> provider, url |-> url, get |-> t.get] >>]
    ELSE [clean |-> None, tls |-> tls_support, probes |-> <<>>]

\* cleanup_url(url=, tls=, provider=) when a GET it issues ends as resp:
\* clean is the value returned, tls the mapping it leaves, probes the
\* on-demand probes it made.
cleanup_url(url, tls_support, provider, resp) ==
    IF UrlparseScheme(url) = <<>>
    THEN IF provider \in DOMAIN tls_support
         THEN [clean |-> Str(FormatUrl(tls_support[provider], url)),
               tls |-> tls_support,
               probes |-> <<>>]
         ELSE LET t == test_tls_supported(url, resp)
              IN  [clean |-> Str(FormatUrl(t.supported, url)),
                   tls |-> [p \in DOMAIN tls_support \cup {provider} |->
                               IF p = provider THEN t.supported ELSE tls_support[p]],
                   probes |-> << [provider |-> provider, url |-> url, get |-> t.get] >>]
    ELSE [clean |-> None, tls |-> tls_support, probes |-> <<>>]

\* should_filter with a case-sensitive look-up in the blacklist.
should_filter_cased(tag) ==
    LET below_threshold == "accuracy" \in DOMAIN tag /\ tag.accuracy < TAG_MIN_CONFIDENCE
    IN  tag.name \in TAG_BLACKLIST \/ below_threshold

\* should_filter of cleanup_tags' loop body, for a tag that has a name.
should_filter(tag) ==
    LET below_threshold == "accuracy" \in DOMAIN tag /\ tag.accuracy < TAG_MIN_CONFIDENCE
    IN  Lower(tag.name) \in TAG_BLACKLIST \/ below_threshold

\* The loop of cleanup_tags from its i-th tag on.
RECURSIVE cleanup_tags_loop(_, _, _, _)
cleanup_tags_loop(tags, i, tag_output, update_required) ==
    IF i > Len(tags)
    THEN [raised |-> FALSE, tag_output |-> tag_output, update_required |-> update_required]
    ELSE IF "name" \notin DOMAIN tags[i]
    THEN [raised |-> TRUE, tag_output |-> tag_output, update_required |-> update_required]
    ELSE IF ~should_filter(tags[i])
    THEN cleanup_tags_loop(tags, i + 1, Append(tag_output, tags[i]), TRUE)
    ELSE cleanup_tags_loop(tags, i + 1, tag_output, update_required)

\* cleanup_tags that returns the retained tags even when there are none.
cleanup_tags_unguarded(tags) ==
    IF tags = <<>>
    THEN None
    ELSE LET r == cleanup_tags_loop(tags, 1, <<>>, FALSE)
         IN  IF r.raised THEN KeyError ELSE Json(r.tag_output)

\* cleanup_tags(tags): Json(tag_output), None, or the KeyError of a tag
\* without a name.
cleanup_tags(tags) ==
    IF tags = <<>>
    THEN None
    ELSE LET r == cleanup_tags_loop(tags, 1, <<>>, FALSE)
         IN  IF r.raised THEN KeyError
             ELSE IF r.update_required THEN Json(r.tag_output)
             ELSE None

(***************************************************************************)
(* The inputs: tags, URLs, staged rows, staging tables.                    *)
(***************************************************************************)
TagCc0 == [name |-> <<"c","c","0">>, accuracy |-> 100]
TagSunset == [name |-> <<"s","u","n","s","e","t">>, accuracy |-> 95]
TagUpper == [name |-> <<"C","C","0">>]
TagSky == [name |-> <<"s","k","y">>, accuracy |-> 89]
TagTree == [name |-> <<"t","r","e","e">>, accuracy |-> 90]
\* A malformed tag record: no name.
TagNoName == [accuracy |-> 99]

Tags == {TagCc0, TagSunset, TagUpper, TagSky, TagTree, TagNoName}

\* www.example.com/x.jpg
UrlX == <<"w","w","w",".","e","x","a","m","p","l","e",".","c","o","m","/","x",".","j","p","g">>
\* http://example.com/y.jpg
UrlY == HTTP \o <<"e","x","a","m","p","l","e",".","c","o","m","/","y",".","j","p","g">>
\* https://e.co/z
UrlZ == HTTPS \o <<"e",".","c","o","/","z">>
\* //e.co/a
UrlRel == <<"/","/","e",".","c","o","/","a">>
\* e.co/?u=https://f : no scheme, and https:// inside
UrlEmb == <<"e",".","c","o","/","?","u","=">> \o HTTPS \o <<"f">>
\* e.co/o'k : a quote inside
UrlQuote == <<"e",".","c","o","/","o","'","k">>

\* https://e.co/?u=http://f : the https scheme, and http:// inside
UrlBoth == HTTPS \o <<"e",".","c","o","/","?","u","=">> \o HTTP \o <<"f">>

Urls == {UrlX, UrlY, UrlZ, UrlRel, UrlEmb, UrlQuote, UrlBoth}

Providers == {"flickr", "met"}

\* The provider -> TLS mappings: the functions from a set of providers.
TlsMappings == UNION { [D -> BOOLEAN] : D \in SUBSET Providers }

\* The fields of _cleanup_config['tables']['image']['providers']['*'], in
\* the order of the dictionary.
FIELDS == <<"tags", "url", "creator_url", "foreign_landing_url", "thumbnail">>

\* A field without a value holds the empty string or the empty list.
Empty == <<>>

RowTemplates == <<
    [provider |-> "flickr", tags |-> <<TagCc0, TagSunset>>, url |-> UrlX,
     creator_url |-> Empty, foreign_landing_url |-> Empty, thumbnail |-> Empty],
    [provider |-> "flickr", tags |-> <<TagSunset>>, url |-> UrlY,
     creator_url |-> Empty, foreign_landing_url |-> Empty, thumbnail |-> UrlZ],
    [provider |-> "met", tags |-> <<TagUpper, TagSky>>, url |-> UrlRel,
     creator_url |-> UrlX, foreign_landing_url |-> Empty, thumbnail |-> Empty],
    [provider |-> "met", tags |-> Empty, url |-> UrlZ,
     creator_url |-> Empty, foreign_landing_url |-> UrlEmb, thumbnail |-> UrlX],
    [provider |-> "flickr", tags |-> <<TagSunset, TagNoName>>, url |-> UrlX,
     creator_url |-> Empty, foreign_landing_url |-> Empty, thumbnail |-> Empty],
    [provider |-> "met", tags |-> <<TagCc0>>, url |-> UrlY,
     creator_url |-> Empty, foreign_landing_url |-> Empty, thumbnail |-> UrlZ] >>

\* The staged record with identifier id made from a template.
StagedRecord(id, t) ==
    [id |-> id, provider |-> t.provider, tags |-> t.tags, url |-> t.url,
     creator_url |-> t.creator_url, foreign_landing_url |-> t.foreign_landing_url,
     thumbnail |-> t.thumbnail]

\* The staging tables of at most maxlen rows: n rows that repeat one
\* template (step 0) or rotate through the templates (step 1).
StagingTables(maxlen) ==
    { [i \in 1..n |->
          StagedRecord(i, RowTemplates[((o + step * (i - 1)) % Len(RowTemplates)) + 1])]
      : o \in 0..(Len(RowTemplates) - 1), step \in {0, 1}, n \in 0..maxlen }

\* The rows of content_provider, as fetchall() returns them.
Catalogs == { <<>>, <<"flickr">>, <<"flickr", "met">> }

(***************************************************************************)
(* State.                                                                  *)
(***************************************************************************)
VARIABLES
    table,          \* temp_import_<table>: the committed rows, by id
    catalog,        \* the provider identifiers of content_provider
    num_workers,    \* multiprocessing.cpu_count()
    pc,             \* where clean_image_data is
    p_i,            \* prober: the index in providers of the provider p
    img_list,       \* prober: the sampled URLs of p still to test
    http_score,     \* prober
    https_score,    \* prober
    provider_tls_supported, \* prober: its result
    votes,          \* history: per provider, the values its probes returned
    tls_support,    \* orchestrator: the prober's result
    cur_rows,       \* iter_cur: the rows of the selection
    cur_pos,        \* iter_cur: the rows fetched so far
    batch,          \* orchestrator
    jobs,           \* orchestrator: the row slices of the jobs
    num_cleaned,    \* orchestrator
    batch_no,       \* history: the batches dispatched so far
    inspected,      \* history: the ids of the rows handed to a worker call
    workers,        \* the _clean_data_worker calls of the current starmap
    db_conns,       \* the open connections made by database_connect()
    fetched,        \* history: per row id, the batches that held it
    handed,         \* history: per row id, the worker calls it was handed to
    updates,        \* history: per row id, the UPDATE statements executed
    call,           \* a cleaning function called on its own: the arguments
    ret             \* ... and what it returned

envVars == <<table, catalog, num_workers>>
proberVars == <<p_i, img_list, http_score, https_score, provider_tls_supported, votes>>
orchVars == <<tls_support, cur_rows, cur_pos, batch, jobs, num_cleaned, batch_no, inspected>>
fnVars == <<call, ret>>
logVars == <<fetched, handed, updates>>
vars == <<envVars, pc, proberVars, orchVars, workers, db_conns, logVars, fnVars>>

\* dict[k] = v
Put(f, k, v) == [x \in DOMAIN f \cup {k} |-> IF x = k THEN v ELSE f[x]]

Min(a, b) == IF a <= b THEN a ELSE b

\* A pool process that runs no call.
IdleWorker ==
    [st |-> "idle", batch |-> 0, rows |-> <<>>, i |-> 1, tls |-> <<>>,
     pending |-> <<>>, probes |-> <<>>]

NoCall == [fn |-> "none"]
NoRet == [done |-> FALSE]

\* clean_image_data(table, upstream_db) is called on a staging table of at
\* most maxlen rows.
InitRun(maxlen) ==
    /\ table \in StagingTables(maxlen)
    /\ catalog \in Catalogs
    /\ num_workers \in 1..MaxWorkers
    /\ pc = "probe_next"
    /\ p_i = 1
    /\ img_list = <<>>
    /\ http_score = 0
    /\ https_score = 0
    /\ provider_tls_supported = <<>>
    /\ votes = <<>>
    /\ tls_support = <<>>
    /\ cur_rows = <<>>
    /\ cur_pos = 0
    /\ batch = <<>>
    /\ jobs = <<>>
    /\ num_cleaned = 0
    /\ batch_no = 0
    /\ inspected = {}
    /\ workers = [w \in 1..num_workers |-> IdleWorker]
    /\ db_conns = 0
    /\ fetched = [i \in DOMAIN table |-> 0]
    /\ handed = [i \in DOMAIN table |-> 0]
    /\ updates = [i \in DOMAIN table |-> 0]
    /\ call = NoCall
    /\ ret = NoRet

Init == InitRun(MaxRows)

(***************************************************************************)
(* TlsTest.test_provider_tls_images_available                              *)
(***************************************************************************)
\* SELECT thumbnail, url FROM temp_import_<table> WHERE provider = p
\* LIMIT 10, in the order of the table, and the img_list made of it.
sample_img_list(rows, p) ==
    LET of_p == SelectSeq(rows, LAMBDA r : r.provider = p)
        sample == SubSeq(of_p, 1, Min(Len(of_p), SAMPLE_LIMIT))
    IN  [i \in 1..Len(sample) |->
            IF sample[i].thumbnail # Empty THEN sample[i].thumbnail ELSE sample[i].url]

\* The decision with a strict comparison: a tie is not encrypted.
provider_decision_strict(https, http) == https > http

\* https_score >= http_score
provider_decision(https, http) == https >= http

\* The head of the loop over providers: the sample of provider p.
ProbeProvider ==
    /\ pc = "probe_next"
    /\ p_i <= Len(catalog)
    /\ img_list' = sample_img_list(table, catalog[p_i])
    /\ http_score' = 0
    /\ https_score' = 0
    /\ votes' = Put(votes, catalog[p_i], <<>>)
    /\ pc' = "probe_test"
    /\ UNCHANGED <<envVars, p_i, provider_tls_supported, orchVars, workers, fnVars, db_conns, logVars>>

\* One turn of the loop over img_list.
ProbeSample ==
    /\ pc = "probe_test"
    /\ img_list # <<>>
    /\ \E resp \in Responses :
          LET t == test_tls_supported(Head(img_list), resp)
          IN  /\ https_score' = IF t.supported THEN https_score + 1 ELSE https_score
              /\ http_score' = IF t.supported THEN http_score ELSE http_score + 1
              /\ votes' = Put(votes, catalog[p_i], Append(votes[catalog[p_i]], t.supported))
    /\ img_list' = Tail(img_list)
    /\ UNCHANGED <<envVars, pc, p_i, provider_tls_supported, orchVars, workers, fnVars, db_conns, logVars>>

\* The decision for provider p, after its last sample.
ProbeDecide ==
    /\ pc = "probe_test"
    /\ img_list = <<>>
    /\ provider_tls_supported' =
          Put(provider_tls_supported, catalog[p_i], provider_decision(https_score, http_score))
    /\ p_i' = p_i + 1
    /\ pc' = "probe_next"
    /\ UNCHANGED <<envVars, img_list, http_score, https_score, votes, orchVars, workers, fnVars, db_conns, logVars>>

\* return provider_tls_supported, to clean_image_data.
ProbeReturn ==
    /\ pc = "probe_next"
    /\ p_i > Len(catalog)
    /\ pc' = "probe_return"
    /\ UNCHANGED <<envVars, proberVars, orchVars, workers, fnVars, db_conns, logVars>>

NextProbe == ProbeProvider \/ ProbeSample \/ ProbeDecide \/ ProbeReturn

\* The prober alone, on tables that hold more rows than it samples.
InitProbe == InitRun(MaxProbeRows) /\ num_workers = 1

SpecProbe == InitProbe /\ [][NextProbe]_vars

(***************************************************************************)
(* The cleaning functions called on their own.                             *)
(***************************************************************************)
\* The tag collections of at most MaxTags tags.
TagCollections == UNION { [1..n -> Tags] : n \in 0..MaxTags }

Calls ==
    { [fn |-> "cleanup_tags", tags |-> t] : t \in TagCollections }
    \cup
    { [fn |-> "cleanup_url", url |-> u, provider |-> p, tls |-> m, resp |-> r]
      : u \in Urls, p \in Providers, m \in TlsMappings, r \in Responses }
    \cup
    { [fn |-> "test_tls_supported", url |-> u, resp |-> r]
      : u \in Urls, r \in Responses }

InitClean ==
    /\ call \in Calls
    /\ ret = NoRet
    /\ table = <<>>
    /\ catalog = <<>>
    /\ num_workers = 1
    /\ pc = "call"
    /\ p_i = 1
    /\ img_list = <<>>
    /\ http_score = 0
    /\ https_score = 0
    /\ provider_tls_supported = <<>>
    /\ votes = <<>>
    /\ tls_support = <<>>
    /\ cur_rows = <<>>
    /\ cur_pos = 0
    /\ batch = <<>>
    /\ jobs = <<>>
    /\ num_cleaned = 0
    /\ batch_no = 0
    /\ inspected = {}
    /\ workers = [w \in 1..num_workers |-> IdleWorker]
    /\ db_conns = 0
    /\ fetched = <<>>
    /\ handed = <<>>
    /\ updates = <<>>

CallCleanupTags ==
    /\ pc = "call"
    /\ call.fn = "cleanup_tags"
    /\ ret' = [done |-> TRUE, clean |-> cleanup_tags(call.tags)]
    /\ pc' = "returned"
    /\ UNCHANGED <<envVars, proberVars, orchVars, workers, call, db_conns, logVars>>

CallCleanupUrl ==
    /\ pc = "call"
    /\ call.fn = "cleanup_url"
    /\ LET r == cleanup_url(call.url, call.tls, call.provider, call.resp)
       IN  ret' = [done |-> TRUE, clean |-> r.clean, tls |-> r.tls, probes |-> r.probes]
    /\ pc' = "returned"
    /\ UNCHANGED <<envVars, proberVars, orchVars, workers, call, db_conns, logVars>>

CallTestTlsSupported ==
    /\ pc = "call"
    /\ call.fn = "test_tls_supported"
    /\ LET t == test_tls_supported(call.url, call.resp)
       IN  ret' = [done |-> TRUE, supported |-> t.supported, get |-> t.get]
    /\ pc' = "returned"
    /\ UNCHANGED <<envVars, proberVars, orchVars, workers, call, db_conns, logVars>>

NextClean == CallCleanupTags \/ CallCleanupUrl \/ CallTestTlsSupported

SpecClean == InitClean /\ [][NextClean]_vars

(***************************************************************************)
(* _clean_data_worker                                                      *)
(***************************************************************************)
\* _cleanup_config['tables']['image']['providers']: only '*' has rules.
providers_config ==
    [p \in {"*"} |->
        [tags |-> "cleanup_tags", url |-> "cleanup_url", creator_url |-> "cleanup_url",
         foreign_landing_url |-> "cleanup_url", thumbnail |-> "cleanup_url"]]

\* fields_to_update for a row of provider: the global rules, overridden by
\* the provider's own rules when it has some.
fields_to_update(provider) ==
    LET global_field_to_func == providers_config["*"]
    IN  IF provider \in DOMAIN providers_config
        THEN [f \in DOMAIN global_field_to_func |->
                 IF f \in DOMAIN providers_config[provider]
                 THEN providers_config[provider][f]
                 ELSE global_field_to_func[f]]
        ELSE global_field_to_func

\* A loop over the fields that passes empty values to the cleaning functions.
skip_field_never(dirty_value) == FALSE

\* if not dirty_value: continue
skip_field(dirty_value) == dirty_value = Empty

\* The loop over fields_to_update from its k-th field on. acc holds
\* cleaned_data (the fragments, in the order they were made), the worker's
\* tls_support, the on-demand probes made and whether a cleaning function
\* raised. resp is how a GET issued for this row ends.
RECURSIVE clean_fields(_, _, _, _)
clean_fields(row, k, acc, resp) ==
    IF k > Len(FIELDS) \/ acc.raised
    THEN acc
    ELSE LET update_field == FIELDS[k]
             dirty_value == row[update_field]
             cleaning_func == fields_to_update(row.provider)[update_field]
         IN  IF skip_field(dirty_value)
             THEN clean_fields(row, k + 1, acc, resp)
             ELSE IF cleaning_func = "cleanup_url"
             THEN LET r == cleanup_url(dirty_value, acc.tls, row.provider, resp)
                  IN  clean_fields(row, k + 1,
                         [acc EXCEPT
                            !.cleaned_data =
                                IF r.clean # None
                                THEN Append(@, [field |-> update_field, cleaned |-> r.clean])
                                ELSE @,
                            !.tls = r.tls,
                            !.probes = @ \o r.probes],
                         resp)
             ELSE LET clean == cleanup_tags(dirty_value)
                  IN  IF clean = KeyError
                      THEN [acc EXCEPT !.raised = TRUE]
                      ELSE clean_fields(row, k + 1,
                              [acc EXCEPT
                                 !.cleaned_data =
                                     IF clean # None
                                     THEN Append(@, [field |-> update_field, cleaned |-> clean])
                                     ELSE @],
                              resp)

\* Whether the server accepts a cleaned value as a literal: a Json is
\* quoted by its adapter; a string must be one quoted literal.
valid_literal(cleaned) ==
    \/ cleaned.kind = "Json"
    \/ /\ cleaned.kind = "str"
       /\ Len(cleaned.val) >= 2
       /\ cleaned.val[1] = QUOTE
       /\ cleaned.val[Len(cleaned.val)] = QUOTE
       /\ \A j \in 2..(Len(cleaned.val) - 1) : cleaned.val[j] # QUOTE

\* The value the server stores for a valid literal.
literal_value(cleaned) ==
    IF cleaned.kind = "Json"
    THEN cleaned.adapted
    ELSE SubSeq(cleaned.val, 2, Len(cleaned.val) - 1)

\* UPDATE temp_table SET field = cleaned, ... WHERE id = _id
update_query(_id, cleaned_data) ==
    [id |-> _id,
     set |-> [j \in DOMAIN cleaned_data |->
                 [field |-> cleaned_data[j].field,
                  value |-> literal_value(cleaned_data[j].cleaned)]]]

\* The row r after an UPDATE statement.
RECURSIVE apply_set(_, _, _)
apply_set(r, set, j) ==
    IF j > Len(set) THEN r
    ELSE apply_set([r EXCEPT ![set[j].field] = set[j].value], set, j + 1)

\* The table after the statements of a committed transaction.
RECURSIVE apply_updates(_, _, _)
apply_updates(rows, pending, j) ==
    IF j > Len(pending) THEN rows
    ELSE apply_updates(
            [i \in DOMAIN rows |->
                IF rows[i].id = pending[j].id
                THEN apply_set(rows[i], pending[j].set, 1)
                ELSE rows[i]],
            pending, j + 1)

\* A pool process takes the call: the worker connects to the database.
WorkerStart(w) ==
    /\ workers[w].st = "queued"
    /\ workers' = [workers EXCEPT ![w].st = "run"]
    /\ db_conns' = db_conns + 1
    /\ UNCHANGED <<envVars, pc, proberVars, orchVars, fnVars, logVars>>

\* The body of the loop over rows for one row, with the worker's mapping
\* tls: failed tells whether a cleaning function raised or the server
\* rejected the statement, executed whether write_cur.execute was called,
\* statements holds the UPDATE the transaction gained.
process_row(row, tls, resp) ==
    LET r == clean_fields(row, 1,
                [cleaned_data |-> <<>>, tls |-> tls, probes |-> <<>>, raised |-> FALSE],
                resp)
        rejected == \E j \in DOMAIN r.cleaned_data :
                        ~valid_literal(r.cleaned_data[j].cleaned)
        executed == ~r.raised /\ Len(r.cleaned_data) > 0
    IN  [failed |-> r.raised \/ (executed /\ rejected),
         executed |-> executed,
         tls |-> r.tls,
         probes |-> r.probes,
         statements |-> IF executed /\ ~rejected
                        THEN << update_query(row.id, r.cleaned_data) >>
                        ELSE <<>>]

\* A worker on an autocommit connection: each UPDATE is committed as it is
\* executed.
WorkerRow_autocommit(w) ==
    /\ workers[w].st = "run"
    /\ workers[w].i <= Len(workers[w].rows)
    /\ \E resp \in Responses :
          LET row == workers[w].rows[workers[w].i]
              r == process_row(row, workers[w].tls, resp)
          IN  /\ workers' = [workers EXCEPT
                     ![w].st = IF r.failed THEN "raised" ELSE @,
                     ![w].i = IF r.failed THEN @ ELSE @ + 1,
                     ![w].tls = r.tls,
                     ![w].probes = @ \o r.probes,
                     ![w].pending = IF r.failed THEN <<>> ELSE @ \o r.statements]
              /\ table' = apply_updates(table, r.statements, 1)
              /\ updates' = IF r.executed
                            THEN [updates EXCEPT ![row.id] = @ + 1]
                            ELSE updates
    /\ UNCHANGED <<catalog, num_workers, pc, proberVars, orchVars, fnVars, db_conns,
                   fetched, handed>>

\* One turn of the loop over rows: clean the fields of the row and execute
\* its UPDATE. A cleaning function that raises, or a statement the server
\* rejects, ends the call with the error, its transaction never committed
\* (its connection stays open until the pool process drops the frame).
WorkerRow(w) ==
    /\ workers[w].st = "run"
    /\ workers[w].i <= Len(workers[w].rows)
    /\ \E resp \in Responses :
          LET row == workers[w].rows[workers[w].i]
              r == process_row(row, workers[w].tls, resp)
          IN  /\ workers' = [workers EXCEPT
                     ![w].st = IF r.failed THEN "raised" ELSE @,
                     ![w].i = IF r.failed THEN @ ELSE @ + 1,
                     ![w].tls = r.tls,
                     ![w].probes = @ \o r.probes,
                     ![w].pending = IF r.failed THEN <<>> ELSE @ \o r.statements]
              /\ updates' = IF r.executed
                            THEN [updates EXCEPT ![row.id] = @ + 1]
                            ELSE updates
    /\ UNCHANGED <<envVars, pc, proberVars, orchVars, fnVars, db_conns, fetched, handed>>

\* A call that commits and returns without closing its connection.
WorkerCommit_unclosed(w) ==
    /\ workers[w].st = "run"
    /\ workers[w].i > Len(workers[w].rows)
    /\ table' = apply_updates(table, workers[w].pending, 1)
    /\ workers' = [workers EXCEPT ![w].st = "done", ![w].pending = <<>>]
    /\ UNCHANGED <<catalog, num_workers, pc, proberVars, orchVars, fnVars, db_conns, logVars>>

\* After the loop: commit, close, return True.
WorkerCommit(w) ==
    /\ workers[w].st = "run"
    /\ workers[w].i > Len(workers[w].rows)
    /\ table' = apply_updates(table, workers[w].pending, 1)
    /\ workers' = [workers EXCEPT ![w].st = "done", ![w].pending = <<>>]
    /\ db_conns' = db_conns - 1
    /\ UNCHANGED <<catalog, num_workers, pc, proberVars, orchVars, fnVars, logVars>>

(***************************************************************************)
(* clean_image_data                                                        *)
(***************************************************************************)
\* batch[start:end], for start and end >= 0.
Slice(s, start, end) ==
    IF start >= Min(end, Len(s)) THEN <<>>
    ELSE SubSeq(s, start + 1, Min(end, Len(s)))

\* A division in which every job starts at the head of the batch.
RECURSIVE divide_work_overlapping(_, _, _, _)
divide_work_overlapping(b, job_size, n, last_end) ==
    IF n > num_workers THEN <<>>
    ELSE LET start == 0
             end == job_size * n
         IN  <<Slice(b, start, end)>> \o divide_work_overlapping(b, job_size, n + 1, end)

\* The loop that divides a batch into jobs, from job n on.
RECURSIVE divide_work(_, _, _, _)
divide_work(b, job_size, n, last_end) ==
    IF n > num_workers THEN <<>>
    ELSE LET start == last_end + 1
             end == job_size * n
         IN  <<Slice(b, start, end)>> \o divide_work(b, job_size, n + 1, end)

\* The row slices of the jobs of a batch.
batch_jobs(b) == divide_work(b, Len(b) \div num_workers, 1, -1)

\* A fetch that returns one row less than the buffer size.
fetchmany_short(rows, pos) ==
    SubSeq(rows, pos + 1, Min(pos + CLEANUP_BUFFER_SIZE - 1, Len(rows)))

\* iter_cur.fetchmany(size=CLEANUP_BUFFER_SIZE)
fetchmany(rows, pos) == SubSeq(rows, pos + 1, Min(pos + CLEANUP_BUFFER_SIZE, Len(rows)))

\* A starmap that returns with the first call that returns.
starmap_returns_first(ws) == \E w \in DOMAIN ws : ws[w].st = "done"

\* A starmap that returns once every call has ended, an error or not.
starmap_returns_tolerant(ws) == \A w \in DOMAIN ws : ws[w].st \in {"done", "raised"}

\* pool.starmap returns once every call has returned.
starmap_returns(ws) == \A w \in DOMAIN ws : ws[w].st = "done"

\* pool.starmap re-raises a call's error once every call has ended.
starmap_raises(ws) ==
    /\ \A w \in DOMAIN ws : ws[w].st \in {"done", "raised"}
    /\ \E w \in DOMAIN ws : ws[w].st = "raised"

\* How many rows of a sequence of rows have the identifier id.
CountIn(rows, id) == Cardinality({ j \in DOMAIN rows : rows[j].id = id })

\* How many rows of the jobs of a batch have the identifier id.
RECURSIVE CountInJobs(_, _)
CountInJobs(js, id) ==
    IF js = <<>> THEN 0 ELSE CountIn(Head(js), id) + CountInJobs(Tail(js), id)

\* From the prober's return to the first fetch: the cursor is declared WITH
\* HOLD on an autocommit connection, so it holds the rows as they are now.
OpenCursor ==
    /\ pc = "probe_return"
    /\ tls_support' = provider_tls_supported
    /\ p_i' = 1
    /\ img_list' = <<>>
    /\ http_score' = 0
    /\ https_score' = 0
    /\ provider_tls_supported' = <<>>
    /\ votes' = <<>>
    /\ cur_rows' = table
    /\ batch' = fetchmany(table, 0)
    /\ cur_pos' = Len(fetchmany(table, 0))
    /\ pc' = "loop"
    /\ db_conns' = db_conns + 1
    /\ fetched' = [i \in DOMAIN fetched |-> fetched[i] + CountIn(fetchmany(table, 0), i)]
    /\ UNCHANGED <<envVars, jobs, num_cleaned, batch_no, inspected, workers, fnVars, handed, updates>>

\* while batch: divide the updates into jobs and start them in a new pool.
Dispatch ==
    /\ pc = "loop"
    /\ batch # <<>>
    /\ jobs' = batch_jobs(batch)
    /\ batch_no' = batch_no + 1
    /\ workers' = [w \in 1..num_workers |->
                      [st |-> "queued", batch |-> batch_no + 1, rows |-> batch_jobs(batch)[w],
                       i |-> 1, tls |-> tls_support, pending |-> <<>>, probes |-> <<>>]]
    /\ inspected' = inspected \cup
                      UNION { { rows[j].id : j \in DOMAIN rows } :
                                rows \in Range(batch_jobs(batch)) }
    /\ handed' = [i \in DOMAIN handed |-> handed[i] + CountInJobs(batch_jobs(batch), i)]
    /\ pc' = "starmap"
    /\ UNCHANGED <<envVars, proberVars, tls_support, cur_rows, cur_pos, batch, num_cleaned, fnVars, db_conns, fetched, updates>>

\* A join that takes over the mapping of the first call of the batch.
Join_merging ==
    /\ pc = "starmap"
    /\ starmap_returns(workers)
    /\ tls_support' = workers[1].tls
    /\ num_cleaned' = num_cleaned + Len(batch)
    /\ jobs' = <<>>
    /\ batch' = fetchmany(cur_rows, cur_pos)
    /\ cur_pos' = cur_pos + Len(fetchmany(cur_rows, cur_pos))
    /\ pc' = "loop"
    /\ fetched' = [i \in DOMAIN fetched |->
                      fetched[i] + CountIn(fetchmany(cur_rows, cur_pos), i)]
    /\ UNCHANGED <<envVars, proberVars, cur_rows, batch_no, inspected, workers, fnVars, db_conns, handed, updates>>

\* starmap returns: count the batch and fetch the next one.
Join ==
    /\ pc = "starmap"
    /\ starmap_returns(workers)
    /\ num_cleaned' = num_cleaned + Len(batch)
    /\ jobs' = <<>>
    /\ batch' = fetchmany(cur_rows, cur_pos)
    /\ cur_pos' = cur_pos + Len(fetchmany(cur_rows, cur_pos))
    /\ pc' = "loop"
    /\ fetched' = [i \in DOMAIN fetched |->
                      fetched[i] + CountIn(fetchmany(cur_rows, cur_pos), i)]
    /\ UNCHANGED <<envVars, proberVars, tls_support, cur_rows, batch_no, inspected, workers, fnVars, db_conns, handed, updates>>

\* starmap raises: the error leaves clean_image_data.
JoinRaise ==
    /\ pc = "starmap"
    /\ starmap_raises(workers)
    /\ pc' = "raised"
    /\ UNCHANGED <<envVars, proberVars, orchVars, workers, fnVars, db_conns, logVars>>

\* The batch is empty: commit, close the cursor and the connection, return.
Finish ==
    /\ pc = "loop"
    /\ batch = <<>>
    /\ pc' = "done"
    /\ db_conns' = db_conns - 1
    /\ UNCHANGED <<envVars, proberVars, orchVars, workers, fnVars, logVars>>

Next ==
    \/ NextProbe
    \/ OpenCursor
    \/ Dispatch
    \/ \E w \in DOMAIN workers : WorkerStart(w)
    \/ \E w \in DOMAIN workers : WorkerRow(w)
    \/ \E w \in DOMAIN workers : WorkerCommit(w)
    \/ Join
    \/ JoinRaise
    \/ Finish

Spec == Init /\ [][Next]_vars

\* The run under a scheduler that lets every process that can take a step
\* take one: the pool's processes run, a GET ends within its timeout of 2
\* seconds, and starmap wakes up when the calls have ended.
\* A started call has a row of its slice left to process.
RowPending(w) ==
    /\ w \in DOMAIN workers
    /\ workers[w].st = "run"
    /\ workers[w].i <= Len(workers[w].rows)

\* WorkerRow(w) is enabled exactly when RowPending(w) holds, and every
\* WorkerRow(w) step moves the call towards the end of its slice, so weak
\* fairness of WorkerRow(w) is the formula []<>~RowPending(w).
SpecLive ==
    /\ Init
    /\ [][Next]_vars
    /\ WF_vars(NextProbe \/ OpenCursor \/ Dispatch \/ Join \/ JoinRaise \/ Finish)
    /\ WF_vars(\E w \in DOMAIN workers : WorkerStart(w) \/ WorkerCommit(w))
    /\ \A w \in 1..MaxWorkers : []<>~RowPending(w)

(***************************************************************************)
(* A re-run: a later run streams a row that an earlier run cleaned.        *)
(***************************************************************************)
\* One-row staging tables: a template with any collection of at most
\* MaxRerunTags tags.
RerunTables ==
    { << StagedRecord(1, [RowTemplates[k] EXCEPT !.tags = tg]) >> :
         k \in DOMAIN RowTemplates,
         tg \in UNION { [1..n -> Tags] : n \in 0..MaxRerunTags } }

\* The call of _clean_data_worker for the rows of the table, as starmap
\* queues it, with the mapping tls.
QueuedWorker(rows, tls) ==
    [st |-> "queued", batch |-> 1, rows |-> rows, i |-> 1, tls |-> tls,
     pending |-> <<>>, probes |-> <<>>]

\* The first run: one worker, handed the only row, with any mapping.
InitRerun ==
    /\ table \in RerunTables
    /\ catalog = <<>>
    /\ num_workers = 1
    /\ pc = "first_run"
    /\ p_i = 1
    /\ img_list = <<>>
    /\ http_score = 0
    /\ https_score = 0
    /\ provider_tls_supported = <<>>
    /\ votes = <<>>
    /\ tls_support \in TlsMappings
    /\ cur_rows = table
    /\ cur_pos = 1
    /\ batch = table
    /\ jobs = << table >>
    /\ num_cleaned = 0
    /\ batch_no = 1
    /\ inspected = {1}
    /\ workers = << QueuedWorker(table, tls_support) >>
    /\ db_conns = 1
    /\ fetched = << 1 >>
    /\ handed = << 1 >>
    /\ updates = << 0 >>
    /\ call = NoCall
    /\ ret = NoRet

\* The next run of clean_image_data, once the call of the first has ended:
\* its prober may decide otherwise, its cursor streams the table as the
\* first run left it (kept in batch), and its worker is handed that row.
Rerun ==
    /\ pc = "first_run"
    /\ workers[1].st \in {"done", "raised"}
    /\ \E m \in TlsMappings :
          /\ tls_support' = m
          /\ workers' = << QueuedWorker(table, m) >>
    /\ batch' = table
    /\ jobs' = << table >>
    /\ pc' = "rerun"
    /\ db_conns' = 1
    /\ UNCHANGED <<envVars, proberVars, cur_rows, cur_pos, num_cleaned, batch_no,
                   inspected, fnVars, logVars>>

NextRerun ==
    \/ WorkerStart(1)
    \/ WorkerRow(1)
    \/ WorkerCommit(1)
    \/ Rerun

SpecRerun == InitRerun /\ [][NextRerun]_vars

(***************************************************************************)
(* Properties.                                                             *)
(***************************************************************************)
UrlFields == {"url", "creator_url", "foreign_landing_url", "thumbnail"}

\* The cursor has been opened: cur_rows holds the rows as the run found them.
Opened == pc \in {"loop", "starmap", "done", "raised"}

\* The calls of the current starmap that have not ended.
Running == { w \in DOMAIN workers : workers[w].st \in {"queued", "run"} }

\* How many times a row occurs in the slices of the jobs.
SliceCount(row) ==
    Cardinality({ wj \in (DOMAIN jobs) \X (1..CLEANUP_BUFFER_SIZE) :
                    /\ wj[2] <= Len(jobs[wj[1]])
                    /\ jobs[wj[1]][wj[2]] = row })

\* C1: the slices dispatched for a batch contain every row of the batch
\* exactly once.
C1_SlicesPartitionBatch ==
    pc = "starmap" => \A i \in DOMAIN batch : SliceCount(batch[i]) = 1

\* A field of a row for which a cleaning function produces a replacement.
Replaceable(row, f) ==
    IF f = "tags"
    THEN cleanup_tags(row.tags).kind = "Json"
    ELSE row[f] # Empty /\ UrlparseScheme(row[f]) = <<>>

\* The stored value of field f of a row is a replacement of the value orig.
Replaced(stored, orig, f) ==
    IF f = "tags"
    THEN stored = cleanup_tags(orig).adapted
    ELSE stored \in {HTTPS \o orig, HTTP \o orig}

\* C2: when clean_image_data returns normally, every row the cursor
\* returned has been passed to a worker call, and every replacement a
\* cleaning function produces for such a row is committed to the table.
C2_CompletionCleansEveryRow ==
    pc = "done" =>
        \A i \in DOMAIN cur_rows :
            /\ cur_rows[i].id \in inspected
            /\ \A f \in Range(FIELDS) :
                  Replaceable(cur_rows[i], f) => Replaced(table[i][f], cur_rows[i][f], f)

\* C3: a table of the single flickr row with tags [cc0 1.0, sunset 0.95]
\* and URL www.example.com/x.jpg, cleaned under the mapping {flickr: true},
\* ends with tags [sunset 0.95] and URL https://www.example.com/x.jpg,
\* for every worker count.
C3_EndToEndFlickrRow ==
    ( /\ pc = "done"
      /\ cur_rows = << StagedRecord(1, RowTemplates[1]) >>
      /\ tls_support = [p \in {"flickr"} |-> TRUE] )
    => /\ table[1].tags = <<TagSunset>>
       /\ table[1].url = HTTPS \o UrlX

\* The statements of the calls of the current starmap, not yet committed.
PendingUpdates == UNION { Range(workers[w].pending) : w \in DOMAIN workers }

\* The fields an UPDATE statement sets.
SetFields(u) == { u.set[j].field : j \in DOMAIN u.set }

\* The on-demand probes of the calls of the current starmap.
WorkerProbes == UNION { Range(workers[w].probes) : w \in DOMAIN workers }

\* C4: a URL field that already carries a scheme is never written by a
\* run, whatever the provider's TLS decision: its stored value stays, no
\* UPDATE of the row sets it, it is never probed, and a worker's mapping
\* gains entries only from the probes of scheme-less URLs.
C4_QualifiedUrlNeverWritten ==
    Opened =>
        /\ \A i \in DOMAIN cur_rows : \A f \in UrlFields :
              UrlparseScheme(cur_rows[i][f]) # <<>> =>
                  /\ table[i][f] = cur_rows[i][f]
                  /\ \A u \in PendingUpdates : u.id = cur_rows[i].id => f \notin SetFields(u)
                  /\ \A pr \in WorkerProbes : pr.url # cur_rows[i][f]
        /\ \A w \in DOMAIN workers : workers[w].st # "idle" =>
              \A p \in DOMAIN workers[w].tls :
                  \/ p \in DOMAIN tls_support /\ workers[w].tls[p] = tls_support[p]
                  \/ \E pr \in Range(workers[w].probes) :
                        pr.provider = p /\ UrlparseScheme(pr.url) = <<>>

\* A worker has committed the UPDATE of a row whose url carries a scheme
\* and whose provider prefers https; another row of a provider absent from
\* the mapping carries a scheme too.
C4_Witness ==
    /\ Opened
    /\ \E w \in DOMAIN workers :
          /\ workers[w].st = "done"
          /\ \E j \in DOMAIN workers[w].rows :
                LET row == workers[w].rows[j]
                IN  /\ row.url = UrlY
                    /\ row.provider \in DOMAIN tls_support
                    /\ tls_support[row.provider]
                    /\ table[row.id].url = UrlY
    /\ \E i \in DOMAIN cur_rows :
          /\ cur_rows[i].provider \notin DOMAIN tls_support
          /\ cur_rows[i].url = UrlZ
          /\ cur_rows[i].id \in inspected

\* C5: for a URL without a scheme, cleanup_url returns the literal of the
\* URL prefixed with https:// when the provider's decision is true and with
\* http:// when it is false; the decision is the provider's entry in the
\* mapping or, without an entry, the result of the probe of that URL.
C5_SchemeFollowsDecision ==
    (ret.done /\ call.fn = "cleanup_url" /\ UrlparseScheme(call.url) = <<>>) =>
        LET decision ==
                IF call.provider \in DOMAIN call.tls
                THEN call.tls[call.provider]
                ELSE test_tls_supported(call.url, call.resp).supported
        IN  /\ ret.clean.kind = "str"
            /\ ret.clean.val =
                  <<QUOTE>> \o (IF decision THEN HTTPS ELSE HTTP) \o call.url \o <<QUOTE>>

\* cleanup_url has qualified with https:// a scheme-less URL of a provider
\* without an entry, after a probe whose GET succeeded.
C5_Witness ==
    /\ ret.done
    /\ call.fn = "cleanup_url"
    /\ call.url = UrlX
    /\ call.provider \notin DOMAIN call.tls
    /\ call.resp.status = 200
    /\ ret.clean = Str(<<QUOTE>> \o HTTPS \o UrlX \o <<QUOTE>>)

\* A tag the cleaning is to filter: blacklisted by its lower-cased name, or
\* with an accuracy below 0.90.
Unwanted(tag) ==
    \/ Lower(tag.name) \in TAG_BLACKLIST
    \/ "accuracy" \in DOMAIN tag /\ tag.accuracy < 90

\* C6: a replacement produced by cleanup_tags holds no blacklisted and no
\* low-accuracy tag, and is exactly the subsequence of the input made of the
\* other tags, in their order.
C6_ReplacementIsFilteredInput ==
    (ret.done /\ call.fn = "cleanup_tags" /\ ret.clean.kind = "Json") =>
        /\ \A j \in DOMAIN ret.clean.adapted : ~Unwanted(ret.clean.adapted[j])
        /\ ret.clean.adapted = SelectSeq(call.tags, LAMBDA t : ~Unwanted(t))

\* cleanup_tags has dropped a blacklisted tag in upper case and a
\* low-accuracy tag and kept a tag that occurs twice.
C6_Witness ==
    /\ ret.done
    /\ call.fn = "cleanup_tags"
    /\ \E c \in {TagUpper, TagSky} : call.tags = <<TagSunset, c, TagSunset>>
    /\ ret.clean = Json(<<TagSunset, TagSunset>>)

\* Every tag of a non-empty collection is filtered out.
AllFiltered(tags) ==
    /\ tags # <<>>
    /\ \A j \in DOMAIN tags : "name" \in DOMAIN tags[j] /\ Unwanted(tags[j])

C8_UnchangedTagsGiveNone ==
    ( /\ ret.done
      /\ call.fn = "cleanup_tags"
      /\ \A j \in DOMAIN call.tags :
            "name" \in DOMAIN call.tags[j] /\ ~Unwanted(call.tags[j]) )
    => ret.clean = None

\* The number of values b in a sequence of votes.
RECURSIVE CountVotes(_, _)
CountVotes(v, b) ==
    IF v = <<>> THEN 0
    ELSE (IF Head(v) = b THEN 1 ELSE 0) + CountVotes(Tail(v), b)

\* The number of rows of provider p in the staging table.
RowsOf(p) == Cardinality({ i \in DOMAIN table : table[i].provider = p })

C10_OneBatchInFlight ==
    /\ \A w \in Running :
          /\ pc = "starmap"
          /\ workers[w].batch = batch_no
          /\ Range(workers[w].rows) \subseteq Range(batch)
    /\ pc = "starmap" =>
          /\ batch = SubSeq(cur_rows, cur_pos - Len(batch) + 1, cur_pos)
          /\ Len(batch) <= CLEANUP_BUFFER_SIZE

\* Two calls of the second batch's starmap run while the first batch's
\* rows are committed.
C10_Witness ==
    /\ batch_no = 2
    /\ Cardinality(Running) = 2
    /\ \E w \in Running : workers[w].st = "run" /\ workers[w].i > 1
    /\ table # cur_rows

\* Some call of the current starmap has ended with an error.
SomeRaised == \E w \in DOMAIN workers : workers[w].st = "raised"

\* C11: once a call of a batch has ended with an error, the run aborts: the
\* error leaves clean_image_data (the run ends as raised, never as done),
\* from then on no batch is fetched and no batch is dispatched, and no row
\* is handed to a worker again, neither by a call that ended being started
\* anew nor by a new call.
C11_WorkerErrorAbortsRun ==
    /\ [][ (SomeRaised \/ pc = "raised") =>
              /\ pc' \in {"starmap", "raised"}
              /\ batch_no' = batch_no
              /\ batch' = batch
              /\ cur_pos' = cur_pos
              /\ num_cleaned' = num_cleaned
              /\ handed' = handed
              /\ \A w \in DOMAIN workers :
                    /\ workers'[w].rows = workers[w].rows
                    /\ workers'[w].batch = workers[w].batch
                    /\ workers[w].st \in {"done", "raised"} => workers'[w] = workers[w]
         ]_vars
    /\ SomeRaised ~> (pc = "raised")

\* The run has ended with the error of a call of the first batch, whose
\* sibling returned, while rows of the table were never fetched.
C11_Witness ==
    /\ pc = "raised"
    /\ batch_no = 1
    /\ cur_pos < Len(cur_rows)
    /\ \E w \in DOMAIN workers : workers[w].st = "done"
    /\ \E w \in DOMAIN workers : workers[w].st = "raised" /\ workers[w].i > 1

\* The providers a call probed on demand.
ProbedBy(w) == { pr.provider : pr \in Range(workers[w].probes) }

\* C12: each call works on its own copy of the mapping. The copy of a call
\* holds the orchestrator's entries, unchanged, and besides them only the
\* entries of the providers the call itself probed; a call that has not
\* started holds the orchestrator's mapping as it is. The orchestrator's
\* mapping is the prober's result from the moment the cursor is opened, and
\* no later step changes it.
C12_WorkerMappingIsPrivate ==
    /\ [](Opened =>
            \A w \in DOMAIN workers :
                workers[w].st # "idle" =>
                    /\ DOMAIN workers[w].tls = DOMAIN tls_support \cup ProbedBy(w)
                    /\ \A p \in DOMAIN tls_support : workers[w].tls[p] = tls_support[p]
                    /\ ProbedBy(w) \cap DOMAIN tls_support = {}
                    /\ workers[w].st = "queued" => workers[w].tls = tls_support)
    /\ [][ /\ pc = "probe_return" => tls_support' = provider_tls_supported
           /\ pc # "probe_return" => tls_support' = tls_support ]_vars

\* Two calls of one batch probed the same provider, absent from the
\* orchestrator's mapping, and hold opposite decisions for it.
C12_Witness ==
    /\ pc = "starmap"
    /\ \E w1, w2 \in DOMAIN workers :
          \E p \in ProbedBy(w1) \cap ProbedBy(w2) :
              /\ p \notin DOMAIN tls_support
              /\ workers[w1].tls[p] # workers[w2].tls[p]

\* The calls of the current starmap that hold a connection: started, and
\* not returned.
Connected == { w \in DOMAIN workers : workers[w].st \in {"run", "raised"} }

\* C13: at every moment the open connections to the staging store are at
\* most the worker count plus one: the orchestrator's own, from the opening
\* of the cursor to its return, and one for every call that has started and
\* has not returned.
C13_ConnectionsBounded ==
    /\ db_conns <= num_workers + 1
    /\ db_conns = (IF pc \in {"loop", "starmap", "raised"} THEN 1 ELSE 0)
                     + Cardinality(Connected)

\* In the second batch every call of the pool holds a connection, after the
\* calls of the first batch closed theirs.
C13_Witness ==
    /\ batch_no = 2
    /\ num_workers = MaxWorkers
    /\ db_conns = num_workers + 1

\* C14: cleaning is idempotent on stored values: when a run cleans a row
\* that an earlier run already cleaned, with whatever mapping, every field
\* of the row is stored afterwards as the earlier run left it.
C14_RecleaningChangesNothing ==
    (pc = "rerun" /\ workers[1].st \in {"done", "raised"}) => table = batch

\* The first run replaced the tags and a URL of the row, and the worker of
\* the second run returned.
C14_Witness ==
    /\ pc = "rerun"
    /\ workers[1].st = "done"
    /\ batch[1].tags # cur_rows[1].tags
    /\ batch[1].url # cur_rows[1].url
    /\ table = batch

\* C15: within one run no row is cleaned more than once: every row the
\* cursor returns is in one batch and no other (in exactly one when the run
\* returns), a row is handed to at most one call, and at most one UPDATE is
\* executed for a row id, by a call the row was handed to.
C15_NoRowCleanedTwice ==
    Opened =>
        \A i \in DOMAIN cur_rows :
            /\ fetched[i] <= 1
            /\ handed[i] <= fetched[i]
            /\ updates[i] <= handed[i]
            /\ fetched[i] = (IF i <= cur_pos THEN 1 ELSE 0)
            /\ pc = "done" => fetched[i] = 1

\* A run over two batches returned, with an UPDATE executed for a row of
\* each batch.
C15_Witness ==
    /\ pc = "done"
    /\ batch_no = 2
    /\ num_workers = MaxWorkers
    /\ \E i \in DOMAIN cur_rows : i <= CLEANUP_BUFFER_SIZE /\ updates[i] = 1
    /\ \E i \in DOMAIN cur_rows : i > CLEANUP_BUFFER_SIZE /\ updates[i] = 1

\* The fields of a row for which a cleaning function produces a replacement.
RowReplacements(row) == { f \in Range(FIELDS) : Replaceable(row, f) }

\* What the UPDATE statements executed for the first n rows of a slice must
\* be: for each row with a replacement, its id and the fields replaced.
RECURSIVE ExpectedUpdates(_, _)
ExpectedUpdates(rows, n) ==
    IF n = 0 THEN <<>>
    ELSE ExpectedUpdates(rows, n - 1) \o
            (IF RowReplacements(rows[n]) # {}
             THEN << [id |-> rows[n].id, fields |-> RowReplacements(rows[n])] >>
             ELSE <<>>)

\* C16: for each row of its slice that it has processed, a call has
\* executed one UPDATE if a cleaning function produced a replacement and
\* none otherwise; the UPDATE names the id of that row and sets each field
\* with a replacement once, to the replacement, and no other field. In the
\* table a field differs from what the cursor returned only if it was not
\* empty, had a replacement, and belongs to a row handed to a call that
\* executed its UPDATE; the id and the provider of a row never change.
C16_OneUpdateOfReplacedFields ==
    Opened =>
        /\ \A w \in DOMAIN workers : workers[w].st = "run" =>
              LET rows == workers[w].rows
                  pending == workers[w].pending
              IN  /\ [j \in DOMAIN pending |->
                         [id |-> pending[j].id, fields |-> SetFields(pending[j])]]
                        = ExpectedUpdates(rows, workers[w].i - 1)
                  /\ \A j \in DOMAIN pending :
                        /\ Len(pending[j].set) = Cardinality(SetFields(pending[j]))
                        /\ \A k \in DOMAIN pending[j].set :
                              Replaced(pending[j].set[k].value,
                                       cur_rows[pending[j].id][pending[j].set[k].field],
                                       pending[j].set[k].field)
                  /\ \A k \in 1..(workers[w].i - 1) :
                        updates[rows[k].id] = (IF RowReplacements(rows[k]) # {} THEN 1 ELSE 0)
        /\ \A i \in DOMAIN cur_rows :
              /\ DOMAIN table[i] = DOMAIN cur_rows[i]
              /\ table[i].id = cur_rows[i].id
              /\ table[i].provider = cur_rows[i].provider
              /\ \A f \in Range(FIELDS) :
                    table[i][f] # cur_rows[i][f] =>
                        /\ cur_rows[i][f] # Empty
                        /\ Replaceable(cur_rows[i], f)
                        /\ Replaced(table[i][f], cur_rows[i][f], f)
                        /\ handed[i] = 1
                        /\ updates[i] = 1

\* A call has processed a row without any replacement, for which it
\* executed nothing, and a row with an empty field and two replacements,
\* for which its one UPDATE sets the two fields.
C16_Witness ==
    \E w \in DOMAIN workers :
        /\ workers[w].st = "run"
        /\ \E k \in 1..(workers[w].i - 1) :
              /\ RowReplacements(workers[w].rows[k]) = {}
              /\ updates[workers[w].rows[k].id] = 0
        /\ \E k \in 1..(workers[w].i - 1) :
              /\ Cardinality(RowReplacements(workers[w].rows[k])) = 2
              /\ workers[w].rows[k].thumbnail = Empty
              /\ \E u \in Range(workers[w].pending) :
                    u.id = workers[w].rows[k].id /\ Len(u.set) = 2

\* C17: a GET of a TLS probe that fails or times out is not surfaced:
\* test_tls_supported returns a value for every URL, false when the GET it
\* issued failed; and for a URL that already contains https:// it returns
\* true without issuing a GET.
C17_FailedGetIsNegativeVote ==
    (pc = "returned" /\ call.fn = "test_tls_supported") =>
        /\ ret.supported \in BOOLEAN
        /\ (ret.get /\ call.resp.exc) => ~ret.supported
        /\ Contains(call.url, HTTPS) => (ret.supported /\ ~ret.get)

\* The scheme a call's mapping gives the URLs of a provider.
StoredScheme(w, p) == IF workers[w].tls[p] THEN HTTPS ELSE HTTP

\* C18: within one call a provider absent from the mapping is probed at
\* most once: the probes of a call are of scheme-less URLs, of providers the
\* mapping it was given does not hold, no two of the same provider, and the
\* entry stored is the result of that probe; every URL the call's
\* statements set carries the scheme of the entry stored for the row's
\* provider; and no step of a call changes or removes an entry of its
\* mapping.
C18_ProbedOncePerProvider ==
    /\ [](Opened =>
            \A w \in DOMAIN workers : workers[w].st # "idle" =>
                LET probes == workers[w].probes
                IN  /\ \A j, k \in DOMAIN probes :
                          probes[j].provider = probes[k].provider => j = k
                    /\ \A j \in DOMAIN probes :
                          /\ probes[j].provider \notin DOMAIN tls_support
                          /\ UrlparseScheme(probes[j].url) = <<>>
                          /\ \E resp \in Responses :
                                workers[w].tls[probes[j].provider]
                                    = test_tls_supported(probes[j].url, resp).supported
                          /\ ~probes[j].get => workers[w].tls[probes[j].provider]
                    /\ \A u \in Range(workers[w].pending) :
                          \A k \in DOMAIN u.set :
                              u.set[k].field \in UrlFields =>
                                  u.set[k].value =
                                      StoredScheme(w, cur_rows[u.id].provider)
                                          \o cur_rows[u.id][u.set[k].field])
    /\ [][ \A w \in DOMAIN workers :
              (workers[w].st # "idle" /\ workers'[w].st # "queued") =>
                  \A p \in DOMAIN workers[w].tls :
                      /\ p \in DOMAIN workers'[w].tls
                      /\ workers'[w].tls[p] = workers[w].tls[p] ]_vars

\* A call probed a provider once, with a GET that gave no support, and has
\* then set two URL fields of each of two rows of that provider.
C18_Witness ==
    \E w \in DOMAIN workers :
        /\ workers[w].st = "run"
        /\ Len(workers[w].probes) = 1
        /\ workers[w].probes[1].get
        /\ ~workers[w].tls[workers[w].probes[1].provider]
        /\ Len(workers[w].pending) = 2
        /\ \A j \in 1..2 :
              /\ workers[w].rows[j].provider = workers[w].probes[1].provider
              /\ Cardinality(SetFields(workers[w].pending[j]) \cap UrlFields) = 2

\* C19: the writes of a call are all-or-nothing for its slice: while a call
\* has not returned, and when it has ended with an error, the table holds
\* every row of its slice as the cursor returned it; once it has returned,
\* the table holds every replacement of every row of its slice; and a row
\* that a commit changed is never changed again, so what sibling calls and
\* the calls of earlier batches committed stays in the table.
C19_SliceCommittedAsAWhole ==
    /\ [](Opened =>
            \A w \in DOMAIN workers :
                /\ workers[w].st \in {"queued", "run", "raised"} =>
                      \A k \in DOMAIN workers[w].rows :
                          table[workers[w].rows[k].id] = cur_rows[workers[w].rows[k].id]
                /\ workers[w].st = "done" =>
                      \A k \in DOMAIN workers[w].rows : \A f \in Range(FIELDS) :
                          Replaceable(workers[w].rows[k], f) =>
                              Replaced(table[workers[w].rows[k].id][f],
                                       workers[w].rows[k][f], f))
    /\ [][ Opened =>
              \A i \in DOMAIN table :
                  table[i] # cur_rows[i] => table'[i] = table[i] ]_vars

\* The run ended with the error of a call that had executed the UPDATE of
\* a row before the row that raised: the table holds that row as it was,
\* and holds the row its sibling call committed as the sibling left it.
C19_Witness ==
    /\ pc = "raised"
    /\ \E w \in DOMAIN workers :
          /\ workers[w].st = "raised"
          /\ workers[w].i = 2
          /\ RowReplacements(workers[w].rows[1]) # {}
          /\ updates[workers[w].rows[1].id] = 1
          /\ table[workers[w].rows[1].id] = cur_rows[workers[w].rows[1].id]
    /\ \E w \in DOMAIN workers :
          /\ workers[w].st = "done"
          /\ \E k \in DOMAIN workers[w].rows :
                table[workers[w].rows[k].id] # cur_rows[workers[w].rows[k].id]

\* ceil(n / CLEANUP_BUFFER_SIZE)
BatchesOf(n) == (n + CLEANUP_BUFFER_SIZE - 1) \div CLEANUP_BUFFER_SIZE

\* C20: a run over a finite table in which every call returns terminates:
\* unless a call ends with an error, clean_image_data returns. When it
\* returns, the cursor has delivered every row, the connections are closed,
\* and the batches dispatched are ceil(rows / CLEANUP_BUFFER_SIZE); while it
\* runs, the batches dispatched are those of the rows fetched; and for an
\* empty table no batch is dispatched and no call is made.
C20_RunTerminates ==
    /\ <>(pc = "done" \/ SomeRaised)
    /\ [](pc = "done" =>
            /\ batch = <<>>
            /\ cur_pos = Len(cur_rows)
            /\ batch_no = BatchesOf(Len(cur_rows))
            /\ num_cleaned = Len(cur_rows)
            /\ db_conns = 0
            /\ Len(cur_rows) = 0 =>
                  /\ batch_no = 0
                  /\ \A w \in DOMAIN workers : workers[w] = IdleWorker)
    /\ [](pc = "starmap" => batch_no = BatchesOf(cur_pos))

\* A run over a table whose rows do not fill the last batch returned after
\* two batches.
C20_Witness ==
    /\ pc = "done"
    /\ batch_no = 2
    /\ Len(cur_rows) % CLEANUP_BUFFER_SIZE # 0
    /\ num_workers = MaxWorkers

====
